---- MODULE Spec2Model ----
(***************************************************************************)
(* The BTCPay invoice client (src/server/plugins/btcpay.js) and the        *)
(* Auth.js adapter built on it (src/server/plugins/btcpayAdapter.js),      *)
(* wired together as in src/server/api/auth/[...].js.                      *)
(*                                                                         *)
(* All state lives in the remote invoice service: per store, the sequence  *)
(* of invoices in creation order.  Every client and adapter function is an *)
(* operator from a call context (remote state, requests issued so far,     *)
(* requests left before the transport fails) to the context after the call *)
(* and the JavaScript value returned or thrown.  One action per function   *)
(* runs it on the current remote state and records the call in `last`;     *)
(* Return hands the outcome to the caller, after which the next call may   *)
(* start (calls are made one at a time).  Where callers run concurrently,  *)
(* `calls` holds each caller's call in flight, one action per request it   *)
(* issues.                                                                 *)
(***************************************************************************)
EXTENDS Integers, Sequences, FiniteSets, TLC

VARIABLES remote, last, calls

vars == <<remote, last, calls>>

\* Bound of the model: invoices the remote service holds, all stores together.
MaxInvoices == 2

\* A call whose transport never fails: more requests than any call issues
\* (the longest, deleteUser, issues two per archived invoice and four more).
NoFail == 2 * MaxInvoices + 5

---------------------------------------------------------------------------
(* Values *)

Users == "Users"
Sessions == "Sessions"
VerificationTokens == "VerificationTokens"

\* options.storeIds of the adapter: the three collections.
Stores == {Users, Sessions, VerificationTokens}

UserIds == {"u1", "u2"}
Emails == {"e1", "e2"}
SessionIds == {"s1", "s2"}
SessionTokens == {"t1", "t2"}
TokenIds == {"v1", "v2"}
Identifiers == {"i1", "i2"}
Tokens == {"k1", "k2"}

\* The ids a document of a store may carry (supplied by the caller or drawn
\* by generateId).
IdsOf(store) ==
  IF store = Users THEN UserIds
  ELSE IF store = Sessions THEN SessionIds ELSE TokenIds

\* Documents without an id, as the authentication framework hands them over.
\* A verification token carries a userId or none.
UserBodies == {[email |-> e] : e \in Emails}
SessionBodies ==
  {[sessionToken |-> "t1", userId |-> "u1"], [sessionToken |-> "t2", userId |-> "u2"]}
TokenBodies ==
  {[identifier |-> "i1", token |-> "k1", userId |-> "u1"],
   [identifier |-> "i1", token |-> "k2"]}

BodiesOf(store) ==
  IF store = Users THEN UserBodies
  ELSE IF store = Sessions THEN SessionBodies ELSE TokenBodies

\* {id: i, ...body}
WithId(body, i) ==
  [f \in DOMAIN body \cup {"id"} |-> IF f = "id" THEN i ELSE body[f]]

\* Documents that carry an id.
DocsOf(store) == {WithId(b, i) : b \in BodiesOf(store), i \in IdsOf(store)}

\* What a caller may pass as `data`: without an id, with an id, or with the
\* empty string for one (to !data.id the same as none).
DataOf(store) ==
  BodiesOf(store) \cup DocsOf(store) \cup {WithId(b, "") : b \in BodiesOf(store)}

\* JavaScript's undefined as a field value.
Undefined == "undefined"

\* doc[key]
Get(doc, key) == IF key \in DOMAIN doc THEN doc[key] ELSE Undefined

\* !data.id is false: the field is there and is no empty string.
HasId(data) == "id" \in DOMAIN data /\ data["id"] # ""

\* Values a function returns or throws.
Null == [k |-> "null"]
Undef == [k |-> "undefined"]
Doc(d) == [k |-> "doc", v |-> d]
List(s) == [k |-> "list", v |-> s]
Pair(s, u) == [k |-> "pair", session |-> s, user |-> u]
Err(m) == [k |-> "error", msg |-> m]

IsErr(r) == r.k = "error"
\* JavaScript truthiness of a returned value.
Truthy(r) == r.k \notin {"null", "undefined"}

\* obj.field of an unwrapped document
Prop(doc, field) == IF field \in DOMAIN doc THEN Doc(doc[field]) ELSE Undef

TransportError == Err("transport")
NotFoundUpdate == Err("Invoice not found for update.")
NotFoundArchive == Err("Invoice not found for archiving.")
MissingUserId == Err("User must have an id to update.")
MissingSessionId == Err("Session must have an id to update.")
TypeError == Err("TypeError: Cannot read properties of undefined")

---------------------------------------------------------------------------
(* The remote service behind request() *)

Ctx(st, fuel) == [st |-> st, fuel |-> fuel, reqs |-> <<>>]

\* A request that the transport fails: logged, the remote state untouched.
Failed(c, req) ==
  [c |-> [c EXCEPT !.reqs = Append(@, req)], ok |-> FALSE, body |-> <<>>]

\* A request the service answers with `body`, leaving `st` behind.
Answered(c, req, st, body) ==
  [c |-> [st |-> st, fuel |-> c.fuel - 1, reqs |-> Append(c.reqs, req)],
   ok |-> TRUE, body |-> body]

\* POST /invoices?storeId=: the service assigns the next invoice id.
ReqCreate(c, store, payload) ==
  LET req == [m |-> "create", store |-> store, payload |-> payload]
      inv == [id |-> ToString(Len(c.st[store]) + 1),
              orderId |-> payload.orderId,
              metadata |-> payload.metadata,
              archived |-> FALSE]
  IN IF c.fuel = 0 THEN Failed(c, req)
     ELSE Answered(c, req, [c.st EXCEPT ![store] = Append(@, inv)], inv)

\* GET /invoices?storeId=&orderId=: every invoice of that order id, archived
\* ones included, in creation order.  The service answers a list request with
\* an array.
ReqQuery(c, store, orderId) ==
  LET req == [m |-> "query", store |-> store, orderId |-> orderId]
      IsThat(inv) == inv.orderId = orderId
  IN IF c.fuel = 0 THEN Failed(c, req)
     ELSE Answered(c, req, c.st, SelectSeq(c.st[store], IsThat))

\* GET /invoices?storeId=
ReqList(c, store) ==
  LET req == [m |-> "list", store |-> store]
  IN IF c.fuel = 0 THEN Failed(c, req)
     ELSE Answered(c, req, c.st, c.st[store])

\* The position of invoice `bid` in its store.
IndexOf(st, store, bid) ==
  CHOOSE i \in 1..Len(st[store]) : st[store][i].id = bid

\* POST /invoices/{id}?storeId=: the metadata of the payload replaces the stored one.
ReqUpdate(c, store, bid, payload) ==
  LET req == [m |-> "update", store |-> store, id |-> bid, payload |-> payload]
      i == IndexOf(c.st, store, bid)
      st == [c.st EXCEPT ![store][i].metadata = payload.metadata]
  IN IF c.fuel = 0 THEN Failed(c, req)
     ELSE Answered(c, req, st, st[store][i])

\* POST /invoices/{id}/archive?storeId=
ReqArchive(c, store, bid) ==
  LET req == [m |-> "archive", store |-> store, id |-> bid]
      i == IndexOf(c.st, store, bid)
      st == [c.st EXCEPT ![store][i].archived = TRUE]
  IN IF c.fuel = 0 THEN Failed(c, req)
     ELSE Answered(c, req, st, st[store][i])

---------------------------------------------------------------------------
(* The client: src/server/plugins/btcpay.js *)

\* A call's outcome: the context after it and the value returned or thrown.
Out(c, r) == [c |-> c, r |-> r]

\* !doc.metadata: a metadata field holds an object or null, and null is
\* falsy like a field that is not there.
wrapPayload(doc) ==
  IF "metadata" \in DOMAIN doc /\ doc["metadata"] # Null
  THEN doc
  ELSE [orderId |-> Get(doc, "id"), metadata |-> doc]

\* {id: invoice.orderId, ...invoice.metadata, btcpayId: invoice.id}
unwrapInvoice(invoice) ==
  [f \in {"id", "btcpayId"} \cup DOMAIN invoice.metadata |->
     IF f = "btcpayId" THEN invoice.id
     ELSE IF f \in DOMAIN invoice.metadata THEN invoice.metadata[f]
     ELSE invoice.orderId]

createInvoice(c, storeId, doc) ==
  LET payload == wrapPayload(doc)
      q == ReqCreate(c, storeId, payload)
  IN IF ~q.ok THEN Out(q.c, TransportError)
     ELSE Out(q.c, Doc(unwrapInvoice(q.body)))

\* Mutant: the archived flag is not looked at.
NotArchived_AnyInvoice(inv) == TRUE

\* (inv) => !inv.archived
NotArchived(inv) == ~inv.archived

\* Mutant: the first invoice of the order id is taken, archived or not.
getInvoiceByOrderId_AnyInvoice(c, storeId, orderId) ==
  LET q == ReqQuery(c, storeId, orderId)
  IN IF ~q.ok THEN Out(q.c, TransportError)
     ELSE IF q.body = <<>> THEN Out(q.c, Null)
     ELSE Out(q.c, Doc(unwrapInvoice(Head(q.body))))

getInvoiceByOrderId(c, storeId, orderId) ==
  LET q == ReqQuery(c, storeId, orderId)
      active == SelectSeq(q.body, NotArchived)
  IN IF ~q.ok THEN Out(q.c, TransportError)
     ELSE IF active = <<>> THEN Out(q.c, Null)
     ELSE Out(q.c, Doc(unwrapInvoice(Head(active))))

\* existingInvoice.btcpayId || existingInvoice.id
BtcpayInvoiceId(existingInvoice) ==
  IF Get(existingInvoice, "btcpayId") \notin {Undefined, ""}
  THEN existingInvoice["btcpayId"]
  ELSE existingInvoice["id"]

updateInvoice(c, storeId, orderId, doc) ==
  LET payload == wrapPayload(doc)
      g == getInvoiceByOrderId(c, storeId, orderId)
      btcpayInvoiceId == BtcpayInvoiceId(g.r.v)
      q == ReqUpdate(g.c, storeId, btcpayInvoiceId, payload)
  IN IF IsErr(g.r) THEN g
     ELSE IF ~Truthy(g.r) THEN Out(g.c, NotFoundUpdate)
     ELSE IF ~q.ok THEN Out(q.c, TransportError)
     ELSE Out(q.c, Doc(unwrapInvoice(q.body)))

\* Mutant: a missing invoice is answered with null instead of an error.
archiveInvoice_NullWhenMissing(c, storeId, orderId) ==
  LET g == getInvoiceByOrderId(c, storeId, orderId)
      q == ReqArchive(g.c, storeId, BtcpayInvoiceId(g.r.v))
  IN IF IsErr(g.r) \/ ~Truthy(g.r) THEN g
     ELSE IF ~q.ok THEN Out(q.c, TransportError)
     ELSE Out(q.c, Doc(unwrapInvoice(q.body)))

archiveInvoice(c, storeId, orderId) ==
  LET g == getInvoiceByOrderId(c, storeId, orderId)
      btcpayInvoiceId == BtcpayInvoiceId(g.r.v)
      q == ReqArchive(g.c, storeId, btcpayInvoiceId)
  IN IF IsErr(g.r) THEN g
     ELSE IF ~Truthy(g.r) THEN Out(g.c, NotFoundArchive)
     ELSE IF ~q.ok THEN Out(q.c, TransportError)
     ELSE Out(q.c, Doc(unwrapInvoice(q.body)))

\* s.map(unwrapInvoice)
RECURSIVE UnwrapAll(_)
UnwrapAll(s) ==
  IF s = <<>> THEN <<>> ELSE <<unwrapInvoice(Head(s))>> \o UnwrapAll(Tail(s))

listInvoices(c, storeId) ==
  LET q == ReqList(c, storeId)
  IN IF ~q.ok THEN Out(q.c, TransportError)
     ELSE Out(q.c, List(UnwrapAll(SelectSeq(q.body, NotArchived))))

\* The documents of `docs` with doc[key] === value, in order.
Matching(docs, key, value) ==
  LET Hit(doc) == Get(doc, key) = value
  IN SelectSeq(docs, Hit)

findInvoiceByMetadata(c, storeId, key, value) ==
  LET l == listInvoices(c, storeId)
      found == Matching(l.r.v, key, value)
  IN IF IsErr(l.r) THEN l
     ELSE IF found = <<>> THEN Out(l.c, Null)
     ELSE Out(l.c, Doc(Head(found)))

\* The loop of archiveInvoicesByMetadata: the first failing archive aborts it.
RECURSIVE ArchiveEach(_, _, _, _)
ArchiveEach(c, storeId, docs, results) ==
  IF docs = <<>> THEN Out(c, List(results))
  ELSE LET a == archiveInvoice(c, storeId, Head(docs)["id"])
       IN IF IsErr(a.r) THEN a
          ELSE ArchiveEach(a.c, storeId, Tail(docs), Append(results, a.r.v))

archiveInvoicesByMetadata(c, storeId, key, value) ==
  LET l == listInvoices(c, storeId)
  IN IF IsErr(l.r) THEN l
     ELSE ArchiveEach(l.c, storeId, Matching(l.r.v, key, value), <<>>)

---------------------------------------------------------------------------
(* The adapter: src/server/plugins/btcpayAdapter.js *)

\* The methods of the adapter object.
AdapterMethods ==
  {"createUser", "getUser", "getUserByEmail", "getUserByAccount", "updateUser",
   "deleteUser", "linkAccount", "unlinkAccount", "getSessionAndUser",
   "createSession", "updateSession", "deleteSession",
   "createVerificationToken", "useVerificationToken"}

ConfigError == Err("You must supply storeIds for Users, Sessions, and VerificationTokens.")

\* !storeIds[name]: not there, or the empty string.
NoStoreId(storeIds, name) == Get(storeIds, name) \in {Undefined, ""}

\* Mutant: only the Users store id is looked at.
BTCPayAdapter_UsersOnly(options) ==
  IF "storeIds" \notin DOMAIN options \/ NoStoreId(options.storeIds, Users)
  THEN ConfigError
  ELSE [k |-> "adapter", methods |-> AdapterMethods]

\* BTCPayAdapter(btcpayClient, options): throws, or returns the adapter object.
BTCPayAdapter(options) ==
  IF \/ "storeIds" \notin DOMAIN options
     \/ NoStoreId(options.storeIds, Users)
     \/ NoStoreId(options.storeIds, Sessions)
     \/ NoStoreId(options.storeIds, VerificationTokens)
  THEN ConfigError
  ELSE [k |-> "adapter", methods |-> AdapterMethods]

\* Mutant: an id is generated also for data that brings one.
createDocument_AlwaysGenerates(c, store, data, gen) ==
  LET withId == WithId(data, gen)
      r == createInvoice(c, store, [orderId |-> withId["id"], metadata |-> withId])
  IN IF IsErr(r.r) THEN r ELSE Out(r.c, Doc(withId))

\* Mutant: the created invoice, unwrapped, is returned instead of the input.
createDocument_ReturnsCreated(c, store, data, gen) ==
  LET withId == IF HasId(data) THEN data ELSE WithId(data, gen)
  IN createInvoice(c, store, [orderId |-> withId["id"], metadata |-> withId])

\* `gen` is what generateId() draws when data has no id.
createDocument(c, store, data, gen) ==
  LET withId == IF HasId(data) THEN data ELSE WithId(data, gen)
      invoiceData == [orderId |-> withId["id"], metadata |-> withId]
      r == createInvoice(c, store, invoiceData)
  IN IF IsErr(r.r) THEN r ELSE Out(r.c, Doc(withId))

getDocument(c, store, id) ==
  LET g == getInvoiceByOrderId(c, store, id)
  IN IF IsErr(g.r) THEN g
     ELSE IF Truthy(g.r) THEN Out(g.c, Prop(g.r.v, "metadata"))
     ELSE Out(g.c, Null)

updateDocument(c, store, id, data) ==
  LET u == updateInvoice(c, store, id, [metadata |-> data])
  IN IF IsErr(u.r) THEN u ELSE Out(u.c, Prop(u.r.v, "metadata"))

deleteDocument(c, store, id) == archiveInvoice(c, store, id)

findDocumentByField(c, store, field, value) ==
  LET f == findInvoiceByMetadata(c, store, field, value)
  IN IF IsErr(f.r) THEN f
     ELSE IF Truthy(f.r) THEN Out(f.c, Prop(f.r.v, "metadata"))
     ELSE Out(f.c, Null)

createUser(c, data, gen) == createDocument(c, Users, data, gen)

getUser(c, id) == getDocument(c, Users, id)

getUserByEmail(c, email) == findDocumentByField(c, Users, "email", email)

getUserByAccount(c, data) == Out(c, Null)

updateUser(c, data) ==
  IF ~HasId(data) THEN Out(c, MissingUserId)
  ELSE updateDocument(c, Users, data["id"], data)

\* Mutant: a failure to delete the user document does not stop the cascade.
deleteUser_CascadeAnyway(c, id) ==
  LET d == deleteDocument(c, Users, id)
      s == archiveInvoicesByMetadata(d.c, Sessions, "userId", id)
      t == archiveInvoicesByMetadata(s.c, VerificationTokens, "userId", id)
  IN IF IsErr(s.r) THEN s
     ELSE IF IsErr(t.r) THEN t
     ELSE IF IsErr(d.r) THEN Out(t.c, d.r)
     ELSE Out(t.c, Undef)

deleteUser(c, id) ==
  LET d == deleteDocument(c, Users, id)
      s == archiveInvoicesByMetadata(d.c, Sessions, "userId", id)
      t == archiveInvoicesByMetadata(s.c, VerificationTokens, "userId", id)
  IN IF IsErr(d.r) THEN d
     ELSE IF IsErr(s.r) THEN s
     ELSE IF IsErr(t.r) THEN t
     ELSE Out(t.c, Undef)

linkAccount(c, data) == Out(c, Doc(data))

unlinkAccount(c, data) == Out(c, Doc(data))

getSessionAndUser(c, sessionToken) ==
  LET session == findDocumentByField(c, Sessions, "sessionToken", sessionToken)
      user == getDocument(session.c, Users, Get(session.r.v, "userId"))
  IN IF IsErr(session.r) THEN session
     ELSE IF ~Truthy(session.r) THEN Out(session.c, Null)
     ELSE IF IsErr(user.r) THEN user
     ELSE IF Truthy(user.r) THEN Out(user.c, Pair(session.r.v, user.r.v))
     ELSE Out(user.c, Null)

createSession(c, data, gen) == createDocument(c, Sessions, data, gen)

\* Mutant: the id is not checked before the update is sent.
updateSession_Unchecked(c, data) ==
  updateDocument(c, Sessions, Get(data, "id"), data)

updateSession(c, data) ==
  IF ~HasId(data) THEN Out(c, MissingSessionId)
  ELSE updateDocument(c, Sessions, data["id"], data)

deleteSession(c, sessionToken) ==
  LET session == findDocumentByField(c, Sessions, "sessionToken", sessionToken)
      d == deleteDocument(session.c, Sessions, Get(session.r.v, "id"))
  IN IF IsErr(session.r) THEN session
     ELSE IF ~Truthy(session.r) THEN Out(session.c, Null)
     ELSE IF IsErr(d.r) THEN d
     ELSE Out(d.c, session.r)

createVerificationToken(c, data, gen) ==
  createDocument(c, VerificationTokens, data, gen)

\* Mutant: the fields are read from the document itself.
VerifyToken_ReadsDocument(invoice, data) ==
  IF ~Truthy(invoice) THEN [stop |-> TRUE, r |-> Null]
  ELSE IF Get(invoice.v, "token") # data.token THEN [stop |-> TRUE, r |-> Null]
  ELSE [stop |-> FALSE, r |-> invoice]

\* The test of useVerificationToken on what the lookup found: the call ends
\* here with r, or goes on to delete the document and then returns r.
\* invoice.metadata.token reads a field of invoice.metadata: a TypeError when
\* invoice.metadata is undefined.
VerifyToken(invoice, data) ==
  LET metadata == Prop(invoice.v, "metadata")
  IN IF ~Truthy(invoice) THEN [stop |-> TRUE, r |-> Null]
     ELSE IF ~Truthy(metadata) THEN [stop |-> TRUE, r |-> TypeError]
     ELSE IF Get(metadata.v, "token") # data.token THEN [stop |-> TRUE, r |-> Null]
     ELSE [stop |-> FALSE, r |-> metadata]

useVerificationToken(c, data) ==
  LET f == findInvoiceByMetadata(c, VerificationTokens, "identifier", data.identifier)
      v == VerifyToken(f.r, data)
      d == deleteDocument(f.c, VerificationTokens, Get(v.r.v, "id"))
  IN IF IsErr(f.r) THEN f
     ELSE IF v.stop THEN Out(f.c, v.r)
     ELSE IF IsErr(d.r) THEN d
     ELSE Out(d.c, v.r)

---------------------------------------------------------------------------
(* State machine: one action per client or adapter function *)

Total(st) == Len(st[Users]) + Len(st[Sessions]) + Len(st[VerificationTokens])

\* The remote service holds fewer than n invoices (the bound of the model).
Room(n) == Total(remote) < n

\* The metadata fields the stores are searched by, and the values searched for.
KeysOf(store) ==
  IF store = Users THEN {"email"}
  ELSE IF store = Sessions THEN {"sessionToken", "userId"}
  ELSE {"identifier", "userId"}

ValuesOf(key) ==
  IF key = "email" THEN Emails
  ELSE IF key = "sessionToken" THEN SessionTokens
  ELSE IF key = "identifier" THEN Identifiers
  ELSE UserIds

TokenQueries == {[identifier |-> i, token |-> k] : i \in Identifiers, k \in Tokens}

Empty == [s \in Stores |-> <<>>]

\* `last` when no call is recorded.
NoCall == [op |-> "none", args |-> <<>>, r |-> Undef, reqs |-> <<>>, pre |-> Empty]

\* No call is in progress.
Idle == last = NoCall

\* Concurrent callers of the client and the adapter.
Callers == {"a", "b"}

\* calls[p] of a caller with no call in flight.
NoneInFlight ==
  [op |-> "none", args |-> <<>>, pc |-> "idle", doc |-> Null, ret |-> Undef,
   at |-> Empty, r |-> Undef, saw |-> "none", hit |-> "none", raced |-> FALSE,
   with |-> {}]

\* The call `op(args)` ran on the current remote state with outcome `o`:
\* `last` keeps the call, its outcome, the requests it issued and the remote
\* state it started from.
Call(op, args, o) ==
  /\ Idle
  /\ remote' = o.c.st
  /\ last' = [op |-> op, args |-> args, r |-> o.r, reqs |-> o.c.reqs,
              pre |-> remote]
  /\ UNCHANGED calls

Start(fuel) == Ctx(remote, fuel)

ClientCreateInvoice(store, doc, fuel) ==
  /\ Call("createInvoice", <<store, doc>>, createInvoice(Start(fuel), store, doc))

ClientGetInvoiceByOrderId(store, orderId, fuel) ==
  Call("getInvoiceByOrderId", <<store, orderId>>,
       getInvoiceByOrderId(Start(fuel), store, orderId))

ClientUpdateInvoice(store, orderId, doc, fuel) ==
  Call("updateInvoice", <<store, orderId, doc>>,
       updateInvoice(Start(fuel), store, orderId, doc))

ClientArchiveInvoice(store, orderId, fuel) ==
  Call("archiveInvoice", <<store, orderId>>,
       archiveInvoice(Start(fuel), store, orderId))

ClientListInvoices(store, fuel) ==
  Call("listInvoices", <<store>>, listInvoices(Start(fuel), store))

ClientFindInvoiceByMetadata(store, key, value, fuel) ==
  Call("findInvoiceByMetadata", <<store, key, value>>,
       findInvoiceByMetadata(Start(fuel), store, key, value))

ClientArchiveInvoicesByMetadata(store, key, value, fuel) ==
  Call("archiveInvoicesByMetadata", <<store, key, value>>,
       archiveInvoicesByMetadata(Start(fuel), store, key, value))

CreateUser(data, gen, fuel) ==
  /\ Call("createUser", <<data>>, createUser(Start(fuel), data, gen))

GetUser(id, fuel) == Call("getUser", <<id>>, getUser(Start(fuel), id))

GetUserByEmail(email, fuel) ==
  Call("getUserByEmail", <<email>>, getUserByEmail(Start(fuel), email))

GetUserByAccount(data, fuel) ==
  Call("getUserByAccount", <<data>>, getUserByAccount(Start(fuel), data))

UpdateUser(data, fuel) == Call("updateUser", <<data>>, updateUser(Start(fuel), data))

DeleteUser(id, fuel) == Call("deleteUser", <<id>>, deleteUser(Start(fuel), id))

LinkAccount(data, fuel) == Call("linkAccount", <<data>>, linkAccount(Start(fuel), data))

UnlinkAccount(data, fuel) ==
  Call("unlinkAccount", <<data>>, unlinkAccount(Start(fuel), data))

GetSessionAndUser(sessionToken, fuel) ==
  Call("getSessionAndUser", <<sessionToken>>,
       getSessionAndUser(Start(fuel), sessionToken))

CreateSession(data, gen, fuel) ==
  /\ Call("createSession", <<data>>, createSession(Start(fuel), data, gen))

UpdateSession(data, fuel) ==
  Call("updateSession", <<data>>, updateSession(Start(fuel), data))

DeleteSession(sessionToken, fuel) ==
  Call("deleteSession", <<sessionToken>>, deleteSession(Start(fuel), sessionToken))

CreateVerificationToken(data, gen, fuel) ==
  /\ Call("createVerificationToken", <<data>>,
          createVerificationToken(Start(fuel), data, gen))

UseVerificationToken(data, fuel) ==
  Call("useVerificationToken", <<data>>, useVerificationToken(Start(fuel), data))

\* The linked-account records handed to the account no-ops.
Accounts == {[provider |-> "magic-link", providerAccountId |-> "e1"]}

\* The caller has the outcome of its call; the adapter keeps nothing of it.
Return ==
  /\ ~Idle
  /\ last' = NoCall
  /\ UNCHANGED <<remote, calls>>

Init ==
  /\ remote = Empty
  /\ last = NoCall
  /\ calls = [p \in Callers |-> NoneInFlight]

ClientNext(n) ==
  \E store \in Stores :
    \/ Room(n) /\ \E doc \in DocsOf(store) : ClientCreateInvoice(store, doc, NoFail)
    \/ \E orderId \in IdsOf(store) : ClientGetInvoiceByOrderId(store, orderId, NoFail)
    \* a document is updated with a document of the same id
    \/ \E doc \in DocsOf(store) : ClientUpdateInvoice(store, doc["id"], doc, NoFail)
    \/ \E orderId \in IdsOf(store) : ClientArchiveInvoice(store, orderId, NoFail)
    \/ ClientListInvoices(store, NoFail)
    \/ \E key \in KeysOf(store) : \E value \in ValuesOf(key) :
         \/ ClientFindInvoiceByMetadata(store, key, value, NoFail)
         \/ ClientArchiveInvoicesByMetadata(store, key, value, NoFail)

AdapterNext(n) ==
  \/ Room(n) /\ \E data \in DataOf(Users) : \E gen \in UserIds :
       CreateUser(data, gen, NoFail)
  \/ \E id \in UserIds : GetUser(id, NoFail)
  \/ \E email \in Emails : GetUserByEmail(email, NoFail)
  \/ \E data \in Accounts : GetUserByAccount(data, NoFail)
  \/ \E data \in DataOf(Users) : UpdateUser(data, NoFail)
  \/ \E id \in UserIds : DeleteUser(id, NoFail)
  \/ \E data \in Accounts : LinkAccount(data, NoFail)
  \/ \E data \in Accounts : UnlinkAccount(data, NoFail)
  \/ \E t \in SessionTokens : GetSessionAndUser(t, NoFail)
  \/ Room(n) /\ \E data \in DataOf(Sessions) : \E gen \in SessionIds :
       CreateSession(data, gen, NoFail)
  \/ \E data \in DataOf(Sessions) : UpdateSession(data, NoFail)
  \/ \E t \in SessionTokens : DeleteSession(t, NoFail)
  \/ Room(n) /\ \E data \in DataOf(VerificationTokens) : \E gen \in TokenIds :
       CreateVerificationToken(data, gen, NoFail)
  \/ \E data \in TokenQueries : UseVerificationToken(data, NoFail)

Next == ClientNext(MaxInvoices) \/ AdapterNext(MaxInvoices) \/ Return

Spec == Init /\ [][Next]_vars

\* The same machine with room for one invoice more: a user, and two documents
\* that belong to users.
NextWide == ClientNext(MaxInvoices + 1) \/ AdapterNext(MaxInvoices + 1) \/ Return

SpecWide == Init /\ [][NextWide]_vars

\* Requests a call gets through before the transport fails one: from none to
\* all but the last of the longest archiveInvoicesByMetadata (one list, then
\* a lookup and an archive per invoice).
Fuels == 0..(2 * MaxInvoices)

\* The same machine, where archiveInvoicesByMetadata may also meet a
\* transport failure at any of its requests.
NextFail ==
  \/ Next
  \/ \E store \in Stores : \E key \in KeysOf(store) : \E value \in ValuesOf(key) :
       \E fuel \in Fuels : ClientArchiveInvoicesByMetadata(store, key, value, fuel)

SpecFail == Init /\ [][NextFail]_vars

\* The adapter alone, as the authentication framework drives it.
NextAdapter == AdapterNext(MaxInvoices) \/ Return

SpecAdapter == Init /\ [][NextAdapter]_vars

\* Verification tokens alone: issued and redeemed, one call at a time.
NextTokens ==
  \/ Room(MaxInvoices) /\ \E data \in DataOf(VerificationTokens) : \E gen \in TokenIds :
       CreateVerificationToken(data, gen, NoFail)
  \/ \E data \in TokenQueries : UseVerificationToken(data, NoFail)
  \/ Return

SpecTokens == Init /\ [][NextTokens]_vars

---------------------------------------------------------------------------
(* Concurrent callers: one action per request of a call in flight *)

\* The store the concurrent callers work on, the one of useVerificationToken.
RaceStore == VerificationTokens

\* The callers work on the documents of one id: the same logical document.
RaceDocs == {doc \in DocsOf(RaceStore) : doc["id"] = "v1"}

InFlight(p) == calls[p].pc \notin {"idle", "done"}

\* Creations begun and not yet applied.
CreatesInFlight ==
  Cardinality({p \in Callers : calls[p].op = "createInvoice" /\ InFlight(p)})

\* The first await of a function.
FirstStep(op) ==
  IF op = "createInvoice" THEN "act"
  ELSE IF op = "useVerificationToken" THEN "find" ELSE "lookup"

\* Caller p calls op(args); `with` keeps the callers whose calls are in flight.
Begin(p, op, args) ==
  /\ calls[p].pc = "idle"
  /\ calls' = [calls EXCEPT ![p] =
                 [NoneInFlight EXCEPT !.op = op, !.args = args, !.pc = FirstStep(op),
                                      !.with = {q \in Callers \ {p} : InFlight(q)}]]
  /\ UNCHANGED <<remote, last>>

\* The call of p settles with r (returned or thrown).
Settled(p, r, hit, raced) ==
  [calls EXCEPT ![p].pc = "done", ![p].r = r, ![p].doc = Null, ![p].at = Empty,
                ![p].hit = hit, ![p].raced = raced]

\* useVerificationToken: await findInvoiceByMetadata, then the test.
Find(p) ==
  /\ calls[p].pc = "find"
  /\ LET data == calls[p].args[1]
         f == findInvoiceByMetadata(Ctx(remote, NoFail), VerificationTokens,
                                    "identifier", data.identifier)
         v == VerifyToken(f.r, data)
     IN calls' = IF v.stop THEN Settled(p, v.r, "none", FALSE)
                 ELSE [calls EXCEPT ![p].pc = "lookup", ![p].ret = v.r]
  /\ UNCHANGED <<remote, last>>

\* The store and the order id a call in flight resolves.
StoreOf(p) ==
  IF calls[p].op = "useVerificationToken" THEN VerificationTokens ELSE calls[p].args[1]
OrderIdOf(p) ==
  IF calls[p].op = "useVerificationToken" THEN Get(calls[p].ret.v, "id")
  ELSE calls[p].args[2]

WhenArchived(inv) == IF inv.archived THEN "archived" ELSE "active"

\* updateInvoice, archiveInvoice: await getInvoiceByOrderId; `at` and `saw`
\* keep the remote state the lookup was answered in and the state of the
\* invoice it resolved.
Lookup(p) ==
  /\ calls[p].pc = "lookup"
  /\ LET g == getInvoiceByOrderId(Ctx(remote, NoFail), StoreOf(p), OrderIdOf(p))
         i == IndexOf(remote, StoreOf(p), g.r.v["btcpayId"])
     IN calls' =
          IF ~Truthy(g.r)
          THEN Settled(p, IF calls[p].op = "updateInvoice" THEN NotFoundUpdate
                          ELSE NotFoundArchive, "none", FALSE)
          ELSE [calls EXCEPT ![p].pc = "act", ![p].doc = g.r, ![p].at = remote,
                             ![p].saw = WhenArchived(remote[StoreOf(p)][i])]
  /\ UNCHANGED <<remote, last>>

\* The request that creates, updates or archives; `hit` keeps the state of
\* the invoice at the moment the request is applied, `raced` whether the
\* remote state has changed since the lookup.
Act(p) ==
  /\ calls[p].pc = "act"
  /\ LET c == Ctx(remote, NoFail)
         op == calls[p].op
         bid == BtcpayInvoiceId(calls[p].doc.v)
         q == IF op = "createInvoice"
              THEN ReqCreate(c, calls[p].args[1], wrapPayload(calls[p].args[2]))
              ELSE IF op = "updateInvoice"
              THEN ReqUpdate(c, StoreOf(p), bid, wrapPayload(calls[p].args[3]))
              ELSE ReqArchive(c, StoreOf(p), bid)
         r == IF op = "useVerificationToken" THEN calls[p].ret
              ELSE Doc(unwrapInvoice(q.body))
         hit == IF op = "createInvoice" THEN "none"
                ELSE WhenArchived(remote[StoreOf(p)][IndexOf(remote, StoreOf(p), bid)])
     IN /\ remote' = q.c.st
        /\ calls' = Settled(p, r, hit, op # "createInvoice" /\ remote # calls[p].at)
  /\ UNCHANGED last

\* The caller has the outcome of its call.
Finish(p) ==
  /\ calls[p].pc = "done"
  /\ calls' = [calls EXCEPT ![p] = NoneInFlight]
  /\ UNCHANGED <<remote, last>>

NextRace ==
  \E p \in Callers :
    \/ /\ Total(remote) + CreatesInFlight < MaxInvoices
       /\ \E doc \in RaceDocs : Begin(p, "createInvoice", <<RaceStore, doc>>)
    \/ \E doc \in RaceDocs : Begin(p, "updateInvoice", <<RaceStore, doc["id"], doc>>)
    \/ \E doc \in RaceDocs : Begin(p, "archiveInvoice", <<RaceStore, doc["id"]>>)
    \/ \E data \in TokenQueries : Begin(p, "useVerificationToken", <<data>>)
    \/ Find(p)
    \/ Lookup(p)
    \/ Act(p)
    \/ Finish(p)

SpecRace == Init /\ [][NextRace]_vars

---------------------------------------------------------------------------
(* The functions that touch no remote state, applied to drawn inputs *)

\* {...doc, [field]: value}
With(doc, field, value) ==
  [f \in DOMAIN doc \cup {field} |-> IF f = field THEN value ELSE doc[f]]

\* What the adapter hands over as documents, with and without an id.
PlainDocs == DataOf(Users) \cup DataOf(Sessions) \cup DataOf(VerificationTokens)

\* Ids the service assigns.
BtcpayIds == {ToString(n) : n \in 1..(MaxInvoices + 1)}

\* Arguments of wrapPayload: plain documents, documents read back from the
\* client (they carry a btcpayId), payloads wrapped by the caller as
\* updateDocument does, with and without an orderId, and documents whose
\* metadata field is null.
WrapInputs ==
  PlainDocs
    \cup {With(d, "btcpayId", "1") : d \in DocsOf(Users)}
    \cup {[metadata |-> d] : d \in PlainDocs}
    \cup {[orderId |-> d["id"], metadata |-> d] : d \in DocsOf(Sessions)}
    \cup {With(d, "metadata", Null) : d \in PlainDocs}

\* The invoice the service makes of a payload and the id it assigns.
InvoiceOf(payload, b) ==
  [id |-> b, orderId |-> Get(payload, "orderId"),
   metadata |-> payload.metadata, archived |-> FALSE]

\* A wrapPayload call is recorded.
IsWrapped == last.op = "wrapPayload"

WrapPayload(doc) ==
  /\ Idle
  /\ last' = [op |-> "wrapPayload", args |-> <<doc>>, r |-> Doc(wrapPayload(doc)),
              reqs |-> <<>>, pre |-> remote]
  /\ UNCHANGED <<remote, calls>>

\* The payload of the recorded wrapPayload call comes back as invoice `b`.
UnwrapInvoice(b) ==
  /\ IsWrapped
  /\ last' = [op |-> "unwrapInvoice", args |-> <<last.args[1], b>>,
              r |-> Doc(unwrapInvoice(InvoiceOf(last.r.v, b))),
              reqs |-> <<>>, pre |-> remote]
  /\ UNCHANGED <<remote, calls>>

\* options of the adapter: no storeIds, or storeIds in which each of the
\* three names is left out, empty or set.
StoreIdChoices == {"none", "", "store"}

StoreIdsOf(pick) ==
  [name \in {n \in Stores : pick[n] # "none"} |->
     IF pick[name] = "" THEN "" ELSE name]

\* The first are options that name the client and nothing else.
AdapterOptions ==
  {[btcpayClient |-> "client"]}
    \cup {[storeIds |-> StoreIdsOf(pick)] : pick \in [Stores -> StoreIdChoices]}

Construct(options) ==
  /\ Idle
  /\ last' = [op |-> "BTCPayAdapter", args |-> <<options>>,
              r |-> BTCPayAdapter(options), reqs |-> <<>>, pre |-> remote]
  /\ UNCHANGED <<remote, calls>>

NextPure ==
  \/ \E doc \in WrapInputs : WrapPayload(doc)
  \/ \E b \in BtcpayIds : UnwrapInvoice(b)
  \/ \E options \in AdapterOptions : Construct(options)
  \/ Return

SpecPure == Init /\ [][NextPure]_vars

---------------------------------------------------------------------------
(* Reading the remote state *)

\* The positions of the active invoices of `store` in state `st` that satisfy P.
ActiveAt(st, store, P(_)) ==
  {i \in 1..Len(st[store]) : ~st[store][i].archived /\ P(st[store][i])}

HasOrderId(orderId, inv) == inv.orderId = orderId
HasField(key, value, inv) == Get(inv.metadata, key) = value

\* Active invoices of `store` by order id, and by a metadata field.
ActiveByOrderId(st, store, orderId) ==
  ActiveAt(st, store, LAMBDA inv : HasOrderId(orderId, inv))
ActiveByField(st, store, key, value) ==
  ActiveAt(st, store, LAMBDA inv : HasField(key, value, inv))

Min(S) == CHOOSE i \in S : \A j \in S : i <= j

\* The invoice a returned document was built from (by its btcpayId).
Source(st, store, doc) == st[store][IndexOf(st, store, doc["btcpayId"])]

IsCall(op) == last.op = op

---------------------------------------------------------------------------
(* Claims *)

\* C1: getInvoiceByOrderId, listInvoices and findInvoiceByMetadata never return
\* a document built from an archived invoice, whatever client operations came
\* before; getInvoiceByOrderId returns the first non-archived invoice of its
\* order id, also behind archived ones, and null when all of them are archived.
C1_ArchivedInvisible ==
  /\ IsCall("getInvoiceByOrderId") =>
       LET store == last.args[1]
           act == ActiveByOrderId(remote, store, last.args[2])
       IN IF act = {} THEN last.r = Null
          ELSE /\ last.r.k = "doc"
               /\ Source(remote, store, last.r.v) = remote[store][Min(act)]
               /\ ~Source(remote, store, last.r.v).archived
  /\ IsCall("listInvoices") =>
       /\ last.r.k = "list"
       /\ \A n \in 1..Len(last.r.v) :
            ~Source(remote, last.args[1], last.r.v[n]).archived
  /\ IsCall("findInvoiceByMetadata") =>
       \/ last.r = Null
       \/ /\ last.r.k = "doc"
          /\ ~Source(remote, last.args[1], last.r.v).archived

\* C1 witness: getInvoiceByOrderId returned a document although an archived
\* invoice of the same order id precedes its invoice.
C1_Witness ==
  /\ IsCall("getInvoiceByOrderId")
  /\ last.r.k = "doc"
  /\ \E i \in 1..Len(remote[last.args[1]]) :
       /\ remote[last.args[1]][i].archived
       /\ remote[last.args[1]][i].orderId = last.args[2]
       /\ i < IndexOf(remote, last.args[1], last.r.v["btcpayId"])

\* The fields of document `d` are those of the stored document `m`.
SameFields(d, m) == DOMAIN d = DOMAIN m /\ \A f \in DOMAIN m : d[f] = m[f]

\* C2: getUser(id) returns the stored document of an active user and null when
\* the user has no active invoice (never created, or deleted); getUserByEmail
\* returns a stored active user document with that email; after deleteUser(id)
\* has completed getUser(id) returns null.
C2_UserLookup ==
  /\ IsCall("getUser") =>
       LET act == ActiveByOrderId(remote, Users, last.args[1])
       IN IF act = {} THEN last.r = Null
          ELSE /\ last.r.k = "doc"
               /\ \E i \in act : SameFields(last.r.v, remote[Users][i].metadata)
  /\ IsCall("getUserByEmail") =>
       LET act == ActiveByField(remote, Users, "email", last.args[1])
       IN act # {} =>
            /\ last.r.k = "doc"
            /\ \E i \in act : SameFields(last.r.v, remote[Users][i].metadata)
  /\ (IsCall("deleteUser") /\ ~IsErr(last.r)) =>
       getUser(Ctx(remote, NoFail), last.args[1]).r = Null

\* C3: with exactly one active verification-token record of the given
\* identifier, whose token is the given one, useVerificationToken returns that
\* record's document and leaves it archived, and a second call with the same
\* pair returns null.
C3_TokenUsedOnce ==
  IsCall("useVerificationToken") =>
    LET data == last.args[1]
        act == ActiveByField(last.pre, VerificationTokens, "identifier", data.identifier)
    IN (Cardinality(act) = 1
          /\ \A i \in act : Get(last.pre[VerificationTokens][i].metadata, "token") = data.token)
       => /\ last.r.k = "doc"
          /\ \A i \in act :
               /\ SameFields(last.r.v, last.pre[VerificationTokens][i].metadata)
               /\ remote[VerificationTokens][i].archived
          /\ useVerificationToken(Ctx(remote, NoFail), data).r = Null

\* C4: useVerificationToken returns null and changes nothing when no active
\* record has the identifier, and when the active records of that identifier
\* hold another token.
C4_TokenMismatchIsNull ==
  IsCall("useVerificationToken") =>
    LET data == last.args[1]
        act == ActiveByField(last.pre, VerificationTokens, "identifier", data.identifier)
    IN (\A i \in act : Get(last.pre[VerificationTokens][i].metadata, "token") # data.token)
       => /\ last.r = Null
          /\ remote = last.pre

\* C5: getSessionAndUser(token) returns null without an active session of that
\* token, null when the session's userId is the id of no active user, and
\* otherwise the pair {session, user} with session.sessionToken = token and
\* user.id = session.userId.
C5_SessionAndUser ==
  IsCall("getSessionAndUser") =>
    LET act == ActiveByField(remote, Sessions, "sessionToken", last.args[1])
        session == remote[Sessions][Min(act)].metadata
    IN IF act = {} THEN last.r = Null
       ELSE IF ActiveByOrderId(remote, Users, Get(session, "userId")) = {}
       THEN last.r = Null
       ELSE /\ last.r.k = "pair"
            /\ Get(last.r.session, "sessionToken") = last.args[1]
            /\ Get(last.r.user, "id") = Get(last.r.session, "userId")

\* The archive requests among `reqs`, in the order issued.
ArchiveRequests(reqs) == SelectSeq(reqs, LAMBDA q : q.m = "archive")

\* Cascade order of the stores: user, then sessions, then verification tokens.
Rank(store) == IF store = Users THEN 1 ELSE IF store = Sessions THEN 2 ELSE 3

\* C6: deleteUser(id) completed for an active user leaves the user's invoice,
\* every session with userId = id and every verification token with
\* userId = id archived, and issues its archive requests user first, then
\* sessions, then verification tokens.
C6_DeleteUserCascade ==
  (IsCall("deleteUser") /\ ~IsErr(last.r)
     /\ ActiveByOrderId(last.pre, Users, last.args[1]) # {}) =>
    LET id == last.args[1]
        arch == ArchiveRequests(last.reqs)
    IN /\ remote[Users][Min(ActiveByOrderId(last.pre, Users, id))].archived
       /\ ActiveByField(remote, Sessions, "userId", id) = {}
       /\ ActiveByField(remote, VerificationTokens, "userId", id) = {}
       /\ arch # <<>> /\ arch[1].store = Users
       /\ \A a, b \in 1..Len(arch) : a < b => Rank(arch[a].store) <= Rank(arch[b].store)
       /\ \A a \in 2..Len(arch) : arch[a].store # Users

\* C8: deleteSession(token) returns null and changes nothing without an active
\* session of that token; otherwise it archives that session's invoice and
\* returns the session as it was, so that getSessionAndUser(token) then
\* returns null.
C8_DeleteSession ==
  IsCall("deleteSession") =>
    LET act == ActiveByField(last.pre, Sessions, "sessionToken", last.args[1])
    IN IF act = {} THEN last.r = Null /\ remote = last.pre
       ELSE /\ last.r.k = "doc"
            /\ SameFields(last.r.v, last.pre[Sessions][Min(act)].metadata)
            /\ remote[Sessions][Min(act)].archived
            /\ getSessionAndUser(Ctx(remote, NoFail), last.args[1]).r = Null

\* No request of `reqs` creates, updates or archives.
OnlyReads(reqs) == \A n \in 1..Len(reqs) : reqs[n].m \in {"query", "list"}

\* updateInvoice or archiveInvoice was called for an order id that no active
\* invoice of the store had.
CalledWithoutActive(op) ==
  /\ IsCall(op)
  /\ ActiveByOrderId(last.pre, last.args[1], last.args[2]) = {}

\* archiveInvoice, called again with the arguments of the recorded call.
SecondArchive == archiveInvoice(Ctx(remote, NoFail), last.args[1], last.args[2])

\* C7 (first part, kept): updateInvoice and archiveInvoice for an order id
\* without an active invoice fail with "not found", issue no update or archive
\* request and leave the remote state unchanged.
C7_NotFoundChangesNothing ==
  /\ CalledWithoutActive("updateInvoice") =>
       last.r = NotFoundUpdate /\ OnlyReads(last.reqs) /\ remote = last.pre
  /\ CalledWithoutActive("archiveInvoice") =>
       last.r = NotFoundArchive /\ OnlyReads(last.reqs) /\ remote = last.pre

\* C7 as stated: ... and so a second archiveInvoice on the same order id, after
\* a first one succeeded, fails with "not found".
C7_SecondArchiveNotFound ==
  /\ C7_NotFoundChangesNothing
  /\ (IsCall("archiveInvoice") /\ last.r.k = "doc") =>
       SecondArchive.r = NotFoundArchive

\* C7 as amended: ... a second archiveInvoice on the same order id, after a
\* first one succeeded, fails with "not found" and changes nothing when the
\* first left no active invoice of that order id, and otherwise archives the
\* first of those left.
C7_SecondArchiveAmended ==
  /\ C7_NotFoundChangesNothing
  /\ (IsCall("archiveInvoice") /\ last.r.k = "doc") =>
       LET left == ActiveByOrderId(remote, last.args[1], last.args[2])
       IN IF left = {}
          THEN SecondArchive.r = NotFoundArchive /\ SecondArchive.c.st = remote
          ELSE /\ SecondArchive.r.k = "doc"
               /\ SecondArchive.c.st =
                    [remote EXCEPT ![last.args[1]][Min(left)].archived = TRUE]

\* C7 witness: archiveInvoice failed with "not found" on an order id whose
\* invoice had been archived before.
C7_Witness ==
  /\ CalledWithoutActive("archiveInvoice")
  /\ last.r = NotFoundArchive
  /\ \E i \in 1..Len(remote[last.args[1]]) :
       /\ remote[last.args[1]][i].orderId = last.args[2]
       /\ remote[last.args[1]][i].archived

\* The store a create function of the adapter writes to.
CreateStore ==
  IF IsCall("createUser") THEN Users
  ELSE IF IsCall("createSession") THEN Sessions ELSE VerificationTokens

IsCreateCall ==
  last.op \in {"createUser", "createSession", "createVerificationToken"}

\* C9: createUser, createSession and createVerificationToken give data an id
\* only when it has none, keep a supplied id, issue exactly one creation
\* request, whose orderId is data.id and whose metadata is data, and return
\* the input document, not the service's answer; the store then holds an
\* active invoice of that order id.
C9_CreateDocument ==
  IsCreateCall =>
    LET data == last.args[1]
        d == last.r.v
    IN /\ last.r.k = "doc"
       /\ "btcpayId" \notin DOMAIN d
       /\ DOMAIN d = DOMAIN data \cup {"id"}
       /\ \A f \in DOMAIN data \ {"id"} : d[f] = data[f]
       /\ HasId(data) => d = data
       /\ (~HasId(data)) => d["id"] \in IdsOf(CreateStore)
       /\ Len(last.reqs) = 1
       /\ last.reqs[1].m = "create" /\ last.reqs[1].store = CreateStore
       /\ last.reqs[1].payload = [orderId |-> d["id"], metadata |-> d]
       /\ Len(remote[CreateStore]) = Len(last.pre[CreateStore]) + 1
       /\ LET inv == remote[CreateStore][Len(remote[CreateStore])]
          IN inv.orderId = d["id"] /\ inv.metadata = d /\ ~inv.archived
       /\ \A i \in 1..Len(last.pre[CreateStore]) :
            remote[CreateStore][i] = last.pre[CreateStore][i]
       /\ \A s \in Stores \ {CreateStore} : remote[s] = last.pre[s]

\* C9 witness: a create call without an id, and so with a generated one, in a
\* store that already held an invoice.
C9_Witness ==
  /\ IsCreateCall
  /\ ~HasId(last.args[1])
  /\ last.r.k = "doc"
  /\ last.pre[CreateStore] # <<>>

\* C10: updateUser and updateSession without data.id fail with the missing-id
\* error before any request is issued; the remote state stays as it was.
C10_UpdateNeedsId ==
  /\ (IsCall("updateUser") /\ ~HasId(last.args[1])) =>
       last.r = MissingUserId /\ last.reqs = <<>> /\ remote = last.pre
  /\ (IsCall("updateSession") /\ ~HasId(last.args[1])) =>
       last.r = MissingSessionId /\ last.reqs = <<>> /\ remote = last.pre

\* C10 witness: updateSession without an id failed while a session was stored.
C10_Witness ==
  /\ IsCall("updateSession")
  /\ ~HasId(last.args[1])
  /\ last.r = MissingSessionId
  /\ remote[Sessions] # <<>>

\* The document `d` with btcpayId set to `b` and nothing else changed.
Stamped(d, b) == With(d, "btcpayId", b)

\* C11 (first part): for a document d with an id and no metadata field
\* and any invoice id b, unwrapInvoice of the invoice {id: b, orderId,
\* metadata} made of wrapPayload(d) is d with the one added field btcpayId = b.
C11_RoundTrip ==
  (IsCall("unwrapInvoice")
     /\ "id" \in DOMAIN last.args[1] /\ "metadata" \notin DOMAIN last.args[1]) =>
    /\ last.r.v = Stamped(last.args[1], last.args[2])
    /\ DOMAIN last.r.v = DOMAIN last.args[1] \cup {"btcpayId"}
    /\ last.r.v["btcpayId"] = last.args[2]

\* C11: the round trip, and wrapPayload returns its argument unchanged when
\* the argument already has a metadata field.
C11_WrapUnwrap ==
  /\ C11_RoundTrip
  /\ (IsCall("wrapPayload") /\ "metadata" \in DOMAIN last.args[1]) =>
       last.r.v = last.args[1]

\* C12: constructing the adapter throws the configuration error, with no
\* adapter object and no request made, when options has no storeIds or one of
\* Users, Sessions, VerificationTokens is missing from it (left out or
\* empty); it returns the adapter with all its methods when the three are there.
C12_ConstructionFailsFast ==
  IsCall("BTCPayAdapter") =>
    LET options == last.args[1]
        Missing(name) ==
          name \notin DOMAIN options.storeIds \/ options.storeIds[name] = ""
    IN /\ last.reqs = <<>>
       /\ remote = last.pre
       /\ IF "storeIds" \notin DOMAIN options \/ \E name \in Stores : Missing(name)
          THEN last.r = ConfigError
          ELSE last.r.k = "adapter" /\ last.r.methods = AdapterMethods

\* C12 witness: construction failed with Users and Sessions set and only
\* VerificationTokens left out.
C12_Witness ==
  /\ IsCall("BTCPayAdapter")
  /\ "storeIds" \in DOMAIN last.args[1]
  /\ DOMAIN last.args[1].storeIds = {Users, Sessions}
  /\ \A name \in {Users, Sessions} : last.args[1].storeIds[name] # ""
  /\ last.r = ConfigError

\* The store updateUser or updateSession writes to.
UpdateStore == IF IsCall("updateUser") THEN Users ELSE Sessions

IsUpdateCall == last.op \in {"updateUser", "updateSession"}

\* The stored side of C13: the invoice the update resolved, the first active
\* one of order id data.id, holds data as its metadata and is otherwise as it
\* was, and so is every other invoice.
UpdateStored ==
  LET data == last.args[1]
      i == Min(ActiveByOrderId(last.pre, UpdateStore, data["id"]))
  IN remote = [last.pre EXCEPT ![UpdateStore][i].metadata = data]

\* C13: after updateUser(data) or updateSession(data) succeeded on an active
\* document, the stored metadata of its invoice is data exactly, its orderId
\* and btcpay id are unchanged, and the call returned the updated document.
C13_UpdateReplaces ==
  (IsUpdateCall /\ ~IsErr(last.r)) =>
    /\ UpdateStored
    /\ last.r.k = "doc"
    /\ \A f \in DOMAIN last.args[1] : Get(last.r.v, f) = last.args[1][f]

\* C17: deleteUser(id) for an id without an active user invoice (never
\* created, or deleted before) fails with the "not found" error of its first
\* step and does not cascade: it issues the one lookup and nothing else, and
\* every session and verification token, those with userId = id included, is
\* as it was before the call.
C17_DeleteMissingUser ==
  (IsCall("deleteUser") /\ ActiveByOrderId(last.pre, Users, last.args[1]) = {}) =>
    /\ last.r = NotFoundArchive
    /\ Len(last.reqs) = 1
    /\ last.reqs[1] = [m |-> "query", store |-> Users, orderId |-> last.args[1]]
    /\ remote = last.pre

\* C17 witness: deleteUser failed with "not found" for a user deleted before,
\* while a session or a verification token of that user was active.
C17_Witness ==
  /\ IsCall("deleteUser")
  /\ last.r = NotFoundArchive
  /\ \E i \in 1..Len(remote[Users]) :
       remote[Users][i].orderId = last.args[1] /\ remote[Users][i].archived
  /\ \/ ActiveByField(remote, Sessions, "userId", last.args[1]) # {}
     \/ ActiveByField(remote, VerificationTokens, "userId", last.args[1]) # {}

\* C18: whenever an active verification-token record holds identifier i and
\* token t, useVerificationToken({identifier: i, token: t}) returns such a
\* record's document and leaves it archived, also when other active records
\* hold the same identifier with another token.
C18_ActiveTokenRedeemable ==
  IsCall("useVerificationToken") =>
    LET data == last.args[1]
        hit == {i \in ActiveByField(last.pre, VerificationTokens, "identifier", data.identifier) :
                  Get(last.pre[VerificationTokens][i].metadata, "token") = data.token}
    IN hit # {} =>
         /\ last.r.k = "doc"
         /\ \E i \in hit :
              /\ SameFields(last.r.v, last.pre[VerificationTokens][i].metadata)
              /\ remote[VerificationTokens][i].archived

\* No store holds two active invoices of one order id.
UniqueActiveIds(st) ==
  \A store \in Stores : \A i, j \in 1..Len(st[store]) :
    (~st[store][i].archived /\ ~st[store][j].archived
       /\ st[store][i].orderId = st[store][j].orderId) => i = j

\* C19 as stated: after any sequence of adapter operations no store holds two
\* active invoices of the same order id, creates called with the id of an
\* active document included.
C19_UniqueIds == UniqueActiveIds(remote)

\* The recorded call is a create whose id, the one data brought or else the
\* one generated for it, was the order id of an active invoice of its store.
ReusingCreate ==
  /\ IsCreateCall
  /\ LET id == IF HasId(last.args[1]) THEN last.args[1]["id"] ELSE last.r.v["id"]
     IN ActiveByOrderId(last.pre, CreateStore, id) # {}

\* C19 as amended: active order ids that are unique stay unique through every
\* adapter operation except a create called with (or generating) an id that
\* an active document of the store has.
C19_UniqueUnlessReused ==
  [][(UniqueActiveIds(remote) /\ ~ReusingCreate') => UniqueActiveIds(remote')]_vars

\* C19 witness: a create brought the id of a deleted document of its store;
\* the store holds the two invoices of that order id, one of them active.
C19_Witness ==
  /\ IsCreateCall
  /\ HasId(last.args[1])
  /\ \E i \in 1..Len(last.pre[CreateStore]) :
       /\ last.pre[CreateStore][i].archived
       /\ last.pre[CreateStore][i].orderId = last.args[1]["id"]
  /\ Cardinality(ActiveByOrderId(remote, CreateStore, last.args[1]["id"])) = 1
  /\ UniqueActiveIds(remote)

\* The invoices of `store` that P holds of before the recorded call are as
\* they were, and the store has gained and lost none.
Untouched(store, P(_)) ==
  /\ Len(remote[store]) = Len(last.pre[store])
  /\ \A i \in 1..Len(last.pre[store]) :
       P(last.pre[store][i]) => remote[store][i] = last.pre[store][i]

\* The reads C20 names left every store as it was.
ReadsChangeNothing ==
  last.op \in {"getUser", "getUserByEmail", "getUserByAccount", "getSessionAndUser"}
    => remote = last.pre

\* C20: deleteUser(id) leaves unchanged every user invoice of another order
\* id and every session and verification token of another userId, and
\* getUser, getUserByEmail, getUserByAccount and getSessionAndUser leave all
\* three stores unchanged.
C20_DeleteUserFrame ==
  /\ IsCall("deleteUser") =>
       /\ Untouched(Users, LAMBDA inv : inv.orderId # last.args[1])
       /\ Untouched(Sessions, LAMBDA inv : Get(inv.metadata, "userId") # last.args[1])
       /\ Untouched(VerificationTokens,
                    LAMBDA inv : Get(inv.metadata, "userId") # last.args[1])
  /\ ReadsChangeNothing

\* The active invoices of `store` whose metadata field `key` is `value`, in
\* list order.
MatchSeq(st, store, key, value) ==
  SelectSeq(st[store], LAMBDA inv : ~inv.archived /\ Get(inv.metadata, key) = value)

\* `st` with the first `d` invoices of `ms` archived.
ArchivedUpTo(st, store, ms, d) ==
  [st EXCEPT ![store] =
     [i \in DOMAIN @ |->
        IF \E n \in 1..d : ms[n].id = @[i].id
        THEN [@[i] EXCEPT !.archived = TRUE] ELSE @[i]]]

\* C16: archiveInvoicesByMetadata archives the matching active invoices one at
\* a time in list order; when a request of the k-th archive fails the error
\* propagates, matches 1..k-1 are archived, matches k..n are active and no
\* request follows the failed one; when nothing fails it returns one result
\* per match and exactly the matches are archived.
C16_ArchiveByMetadata ==
  IsCall("archiveInvoicesByMetadata") =>
    LET store == last.args[1]
        ms == MatchSeq(last.pre, store, last.args[2], last.args[3])
        n == Len(ms)
        arch == ArchiveRequests(last.reqs)
        done == Cardinality({i \in 1..Len(remote[store]) :
                  remote[store][i].archived /\ ~last.pre[store][i].archived})
    IN /\ \A a \in 1..Len(arch) : a <= n /\ arch[a].id = ms[a].id
       /\ done <= n
       /\ remote = ArchivedUpTo(last.pre, store, ms, done)
       /\ IF IsErr(last.r)
          THEN /\ last.r = TransportError
               /\ \/ Len(last.reqs) = 1 /\ done = 0
                  \/ /\ done < n
                     /\ Len(arch) <= done + 1
                     /\ Len(last.reqs) \in {2 * done + 2, 2 * done + 3}
          ELSE /\ last.r.k = "list"
               /\ Len(last.r.v) = n
               /\ done = n
               /\ \A a \in 1..n : last.r.v[a]["btcpayId"] = ms[a].id

\* The call of caller p has settled and was a call of op.
Done(p, op) == calls[p].pc = "done" /\ calls[p].op = op

\* C14 as stated: under every interleaving, updateInvoice never has its update
\* request applied to an invoice that is archived at that moment.
C14_NeverUpdatesArchived ==
  \A p \in Callers : Done(p, "updateInvoice") => calls[p].hit # "archived"

\* C14 as amended: the invoice updateInvoice sends its update request for was
\* active when the lookup was answered, and is active when the request is
\* applied if no request of another caller changed the store in between.
C14_UpdatesSeenActive ==
  \A p \in Callers :
    (Done(p, "updateInvoice") /\ calls[p].hit # "none") =>
      /\ calls[p].saw = "active"
      /\ ~calls[p].raced => calls[p].hit = "active"

\* C14 witness: an update was applied to an invoice that another caller had
\* archived after the lookup.
C14_Witness ==
  \E p \in Callers :
    /\ Done(p, "updateInvoice")
    /\ calls[p].saw = "active"
    /\ calls[p].raced
    /\ calls[p].hit = "archived"
    /\ calls[p].r.k = "doc"

\* Callers p and q made overlapping calls of useVerificationToken with the
\* same identifier and token, and both calls have settled.
OverlappingUses(p, q) ==
  /\ p # q
  /\ Done(p, "useVerificationToken")
  /\ Done(q, "useVerificationToken")
  /\ calls[p].args = calls[q].args
  /\ q \in calls[p].with

====
